---- MODULE Spec2Model ----
(***************************************************************************)
(* Model of rusoto/core/src/error.rs: the RusotoError<E> envelope, its     *)
(* From conversions, and its Display / Error presentation.                 *)
(*                                                                         *)
(* Texts are sequences of one-character strings.  An Option is a sequence  *)
(* of length 0 (None) or 1 (Some).  An envelope is a record holding the    *)
(* active variant and its payload.                                         *)
(***************************************************************************)
EXTENDS Naturals, Sequences, FiniteSets

VARIABLES
    failure,    \* the collaborator failure moved into the conversion, if any
    env,        \* Option: the envelope held by the operation
    built,      \* Option: the envelope exactly as it was constructed
    origin,     \* "none", "from" (a From conversion) or "explicit"
    shown,      \* Option: the text last written by Display::fmt
    described,  \* Option: the text last returned by description()
    cause,      \* Option: the Option last returned by source()
    matched,    \* Option: the arm and binding of the last pattern match
    hops        \* number of call frames the envelope was propagated through

vars == <<failure, env, built, origin, shown, described, cause, matched, hops>>

----------------------------------------------------------------------------
(* Bounds of the model *)

MaxLen == 2
MaxLine == 1
MaxHops == 2

----------------------------------------------------------------------------
(* Values *)

None == <<>>
Some(x) == <<x>>
IsSome(o) == Len(o) = 1
Unwrap(o) == o[1]

BoundedSeq(S, n) == UNION {[1..k -> S] : k \in 0..n}

Chars == {"a", "<"}
BadParam == <<"b", "a", "d", " ", "p", "a", "r", "a", "m">>
Text == BoundedSeq(Chars, MaxLen) \cup {BadParam}

\* Body bytes: 97 is 'a', 60 is '<', 255 is never part of valid UTF-8.
Bytes == {97, 60, 255}
ByteString == BoundedSeq(Bytes, MaxLen)
StatusCodes == {400, 500}

HeaderSets == {<<>>, <<"x-amzn-requestid">>}

----------------------------------------------------------------------------
(* Collaborator failure types ingested by the envelope *)

\* proto::xml::util::XmlParseError, a tuple struct around its message.
XmlParseError(message) == <<message>>
XmlParseErrors == {XmlParseError(m) : m \in Text}

\* serde_json::error::Error: an error code text and the position it was
\* detected at; line 0 means no position is known.
JsonErrors == [code : Text, line : 0..MaxLine, column : 0..MaxLine]

Digits == <<"0", "1", "2", "3", "4", "5", "6", "7", "8", "9">>

RECURSIVE Decimal(_)
Decimal(n) ==
    IF n < 10 THEN <<Digits[n + 1]>>
    ELSE Decimal(n \div 10) \o <<Digits[(n % 10) + 1]>>

AtLine == <<" ", "a", "t", " ", "l", "i", "n", "e", " ">>
AtColumn == <<" ", "c", "o", "l", "u", "m", "n", " ">>

\* err.to_string() of a serde_json error: its Display rendering.
JsonErrorToString(err) ==
    IF err.line = 0 THEN err.code
    ELSE err.code \o AtLine \o Decimal(err.line) \o AtColumn \o Decimal(err.column)

\* credential::CredentialsError
CredentialsErrors == [message : Text]
CredentialsErrorDescription(err) == err.message

\* request::HttpDispatchError
HttpDispatchErrors == [message : Text]
HttpDispatchErrorDescription(err) == err.message

\* std::io::Error: a kind and a description.
IoKinds == {"TimedOut", "BrokenPipe"}
IoErrors == [kind : IoKinds, desc : Text]

\* HttpDispatchError::from(io::Error): keeps the description, drops the kind.
HttpDispatchErrorFromIo(err) == [message |-> err.desc]

\* The caller-supplied service error type E (E: Error + 'static).
ServiceCodes == {"ResourceNotFound", "Throttling"}
ServiceErrors == [code : ServiceCodes, message : Text]
ServiceErrorDescription(err) == err.message

\* request::BufferedHttpResponse
BufferedHttpResponses ==
    [status : StatusCodes, headers : HeaderSets, body : ByteString]

Utf8Valid(b) == b < 128
Utf8Char(b) == IF b = 97 THEN "a" ELSE "<"
UnknownErrorText == <<"u", "n", "k", "n", "o", "w", "n", " ", "e", "r", "r", "o", "r">>

\* BufferedHttpResponse::body_as_str: best-effort rendering of the body.
body_as_str(resp) ==
    IF \A k \in 1..Len(resp.body) : Utf8Valid(resp.body[k])
    THEN [k \in 1..Len(resp.body) |-> Utf8Char(resp.body[k])]
    ELSE UnknownErrorText

----------------------------------------------------------------------------
(* enum RusotoError<E> *)

Variants ==
    {"Service", "ServiceCommonError", "HttpDispatch", "Credentials",
     "Validation", "ParseError", "Unknown"}

Service(err) == [variant |-> "Service", payload |-> err]
ServiceCommonError(text) == [variant |-> "ServiceCommonError", payload |-> text]
HttpDispatch(err) == [variant |-> "HttpDispatch", payload |-> err]
Credentials(err) == [variant |-> "Credentials", payload |-> err]
Validation(text) == [variant |-> "Validation", payload |-> text]
ParseError(text) == [variant |-> "ParseError", payload |-> text]
Unknown(resp) == [variant |-> "Unknown", payload |-> resp]

\* The envelopes e1 and e2 are equal (derived PartialEq): same variant,
\* equal payloads.
EnvelopeEq(e1, e2) == e1.variant = e2.variant /\ e1.payload = e2.payload

RusotoErrors ==
    {Service(e) : e \in ServiceErrors}
    \cup {ServiceCommonError(t) : t \in Text}
    \cup {HttpDispatch(d) : d \in HttpDispatchErrors}
    \cup {Credentials(c) : c \in CredentialsErrors}
    \cup {Validation(t) : t \in Text}
    \cup {ParseError(t) : t \in Text \cup {JsonErrorToString(j) : j \in JsonErrors}}
    \cup {Unknown(r) : r \in BufferedHttpResponses}

----------------------------------------------------------------------------
(* impl From<...> for RusotoError<E> *)

\* Faulty variant: the message lands in the wrong text variant.
FromXmlParseError_asValidation(err) == Validation(err[1])

\* From<XmlParseError>: destructure the tuple struct, wrap its message.
FromXmlParseError(err) == ParseError(err[1])

\* Faulty variant: the position is dropped from the rendered text.
FromJsonError_codeOnly(err) == ParseError(err.code)

\* From<serde_json::error::Error>: wrap the error's rendered text.
FromJsonError(err) == ParseError(JsonErrorToString(err))

\* From<CredentialsError>: wrap unchanged.
FromCredentialsError(err) == Credentials(err)

\* Faulty variant: the transport failure is rebuilt without its message.
FromHttpDispatchError_blank(err) == HttpDispatch([message |-> <<>>])

\* From<HttpDispatchError>: wrap unchanged.
FromHttpDispatchError(err) == HttpDispatch(err)

\* Faulty variant: the I/O fault is flattened to text.
FromIoError_asParseError(err) == ParseError(err.desc)

\* From<io::Error>: coerce to the transport failure, then wrap.
FromIoError(err) == HttpDispatch(HttpDispatchErrorFromIo(err))

----------------------------------------------------------------------------
(* impl Error for RusotoError<E>, impl Display for RusotoError<E> *)

\* Markup escaping of a text, as used by the faulty variant below.
RECURSIVE Escaped(_)
Escaped(text) ==
    IF text = <<>> THEN <<>>
    ELSE (IF Head(text) = "<" THEN <<"&", "l", "t", ";">> ELSE <<Head(text)>>)
         \o Escaped(Tail(text))

\* Faulty variant: carried text is escaped.
description_escaping(e) ==
    CASE e.variant = "Service" -> ServiceErrorDescription(e.payload)
      [] e.variant = "ServiceCommonError" -> Escaped(e.payload)
      [] e.variant = "Validation" -> Escaped(e.payload)
      [] e.variant = "Credentials" -> CredentialsErrorDescription(e.payload)
      [] e.variant = "HttpDispatch" -> HttpDispatchErrorDescription(e.payload)
      [] e.variant = "ParseError" -> e.payload
      [] e.variant = "Unknown" -> body_as_str(e.payload)

\* Faulty variant: an empty body is replaced by a placeholder.
description_placeholder(e) ==
    CASE e.variant = "Service" -> ServiceErrorDescription(e.payload)
      [] e.variant = "ServiceCommonError" -> e.payload
      [] e.variant = "Validation" -> e.payload
      [] e.variant = "Credentials" -> CredentialsErrorDescription(e.payload)
      [] e.variant = "HttpDispatch" -> HttpDispatchErrorDescription(e.payload)
      [] e.variant = "ParseError" -> e.payload
      [] e.variant = "Unknown" -> IF e.payload.body = <<>> THEN UnknownErrorText
                                   ELSE body_as_str(e.payload)

\* Error::description
description(e) ==
    CASE e.variant = "Service" -> ServiceErrorDescription(e.payload)
      [] e.variant = "ServiceCommonError" -> e.payload
      [] e.variant = "Validation" -> e.payload
      [] e.variant = "Credentials" -> CredentialsErrorDescription(e.payload)
      [] e.variant = "HttpDispatch" -> HttpDispatchErrorDescription(e.payload)
      [] e.variant = "ParseError" -> e.payload
      [] e.variant = "Unknown" -> body_as_str(e.payload)

\* Faulty variant: the text is prefixed with a label.
fmt_labelled(e) ==
    IF e.variant = "ParseError"
    THEN <<"P", "a", "r", "s", "e", ":", " ">> \o description(e)
    ELSE description(e)

\* Display::fmt: the text written to the formatter.
fmt(e) == description(e)

\* Faulty variant: the Credentials arm is missing.
source_noCredentials(e) ==
    CASE e.variant = "Service" -> Some(e.payload)
      [] e.variant = "HttpDispatch" -> Some(e.payload)
      [] OTHER -> None

\* Faulty variant: the Service arm is missing.
source_noService(e) ==
    CASE e.variant = "Credentials" -> Some(e.payload)
      [] e.variant = "HttpDispatch" -> Some(e.payload)
      [] OTHER -> None

\* Error::source
source(e) ==
    CASE e.variant = "Service" -> Some(e.payload)
      [] e.variant = "Credentials" -> Some(e.payload)
      [] e.variant = "HttpDispatch" -> Some(e.payload)
      [] OTHER -> None

----------------------------------------------------------------------------
(* The life of one envelope: constructed once, then observed and propagated *)

NoFailure == [layer |-> "none"]
Raised(layer, err) == [layer |-> layer, value |-> err]

Init ==
    /\ failure = NoFailure
    /\ env = None
    /\ built = None
    /\ origin = "none"
    /\ shown = None
    /\ described = None
    /\ cause = None
    /\ matched = None
    /\ hops = 0

ConvertXml ==
    \E err \in XmlParseErrors :
        /\ env = None
        /\ failure' = Raised("xml", err)
        /\ env' = Some(FromXmlParseError(err))
        /\ built' = Some(FromXmlParseError(err))
        /\ origin' = "from"
        /\ UNCHANGED <<shown, described, cause, matched, hops>>

ConvertJson ==
    \E err \in JsonErrors :
        /\ env = None
        /\ failure' = Raised("json", err)
        /\ env' = Some(FromJsonError(err))
        /\ built' = Some(FromJsonError(err))
        /\ origin' = "from"
        /\ UNCHANGED <<shown, described, cause, matched, hops>>

ConvertCredentials ==
    \E err \in CredentialsErrors :
        /\ env = None
        /\ failure' = Raised("credentials", err)
        /\ env' = Some(FromCredentialsError(err))
        /\ built' = Some(FromCredentialsError(err))
        /\ origin' = "from"
        /\ UNCHANGED <<shown, described, cause, matched, hops>>

ConvertDispatch ==
    \E err \in HttpDispatchErrors :
        /\ env = None
        /\ failure' = Raised("dispatch", err)
        /\ env' = Some(FromHttpDispatchError(err))
        /\ built' = Some(FromHttpDispatchError(err))
        /\ origin' = "from"
        /\ UNCHANGED <<shown, described, cause, matched, hops>>

ConvertIo ==
    \E err \in IoErrors :
        /\ env = None
        /\ failure' = Raised("io", err)
        /\ env' = Some(FromIoError(err))
        /\ built' = Some(FromIoError(err))
        /\ origin' = "from"
        /\ UNCHANGED <<shown, described, cause, matched, hops>>

NewService ==
    \E err \in ServiceErrors :
        /\ env = None
        /\ failure' = NoFailure
        /\ env' = Some(Service(err))
        /\ built' = Some(Service(err))
        /\ origin' = "explicit"
        /\ UNCHANGED <<shown, described, cause, matched, hops>>

NewServiceCommonError ==
    \E text \in Text :
        /\ env = None
        /\ failure' = NoFailure
        /\ env' = Some(ServiceCommonError(text))
        /\ built' = Some(ServiceCommonError(text))
        /\ origin' = "explicit"
        /\ UNCHANGED <<shown, described, cause, matched, hops>>

NewValidation ==
    \E text \in Text :
        /\ env = None
        /\ failure' = NoFailure
        /\ env' = Some(Validation(text))
        /\ built' = Some(Validation(text))
        /\ origin' = "explicit"
        /\ UNCHANGED <<shown, described, cause, matched, hops>>

NewUnknown ==
    \E resp \in BufferedHttpResponses :
        /\ env = None
        /\ failure' = NoFailure
        /\ env' = Some(Unknown(resp))
        /\ built' = Some(Unknown(resp))
        /\ origin' = "explicit"
        /\ UNCHANGED <<shown, described, cause, matched, hops>>

NewHttpDispatch ==
    \E err \in HttpDispatchErrors :
        /\ env = None
        /\ failure' = NoFailure
        /\ env' = Some(HttpDispatch(err))
        /\ built' = Some(HttpDispatch(err))
        /\ origin' = "explicit"
        /\ UNCHANGED <<shown, described, cause, matched, hops>>

NewCredentials ==
    \E err \in CredentialsErrors :
        /\ env = None
        /\ failure' = NoFailure
        /\ env' = Some(Credentials(err))
        /\ built' = Some(Credentials(err))
        /\ origin' = "explicit"
        /\ UNCHANGED <<shown, described, cause, matched, hops>>

NewParseError ==
    \E text \in Text :
        /\ env = None
        /\ failure' = NoFailure
        /\ env' = Some(ParseError(text))
        /\ built' = Some(ParseError(text))
        /\ origin' = "explicit"
        /\ UNCHANGED <<shown, described, cause, matched, hops>>

\* Faulty variant: displaying takes the carried text out of the envelope.
Display_consuming ==
    /\ IsSome(env)
    /\ shown' = Some(fmt(Unwrap(env)))
    /\ env' = IF Unwrap(env).variant \in {"ServiceCommonError", "Validation", "ParseError"}
              THEN Some([Unwrap(env) EXCEPT !.payload = <<>>])
              ELSE env
    /\ UNCHANGED <<failure, built, origin, described, cause, matched, hops>>

\* format!("{}", err): Display::fmt through a shared reference.
Display ==
    /\ IsSome(env)
    /\ shown' = Some(fmt(Unwrap(env)))
    /\ UNCHANGED <<failure, env, built, origin, described, cause, matched, hops>>

\* err.description() through a shared reference.
Describe ==
    /\ IsSome(env)
    /\ described' = Some(description(Unwrap(env)))
    /\ UNCHANGED <<failure, env, built, origin, shown, cause, matched, hops>>

\* err.source() through a shared reference.
Source ==
    /\ IsSome(env)
    /\ cause' = Some(source(Unwrap(env)))
    /\ UNCHANGED <<failure, env, built, origin, shown, described, matched, hops>>

\* match err { Variant(ref x) => ... }: the arm taken and the value bound.
PatternMatch ==
    /\ IsSome(env)
    /\ matched' = Some([arm |-> Unwrap(env).variant, bound |-> Unwrap(env).payload])
    /\ UNCHANGED <<failure, env, built, origin, shown, described, cause, hops>>

\* The Err(envelope) of a RusotoResult is returned to the calling frame.
Propagate ==
    /\ IsSome(env)
    /\ hops < MaxHops
    /\ hops' = hops + 1
    /\ UNCHANGED <<failure, env, built, origin, shown, described, cause, matched>>

Next ==
    \/ ConvertXml
    \/ ConvertJson
    \/ ConvertCredentials
    \/ ConvertDispatch
    \/ ConvertIo
    \/ NewService
    \/ NewServiceCommonError
    \/ NewValidation
    \/ NewUnknown
    \/ NewHttpDispatch
    \/ NewCredentials
    \/ NewParseError
    \/ Display
    \/ Describe
    \/ Source
    \/ PatternMatch
    \/ Propagate

Spec == Init /\ [][Next]_vars

TypeOK ==
    /\ failure.layer \in {"none", "xml", "json", "credentials", "dispatch", "io"}
    /\ IsSome(env) => Unwrap(env) \in RusotoErrors
    /\ origin \in {"none", "from", "explicit"}
    /\ hops \in 0..MaxHops

----------------------------------------------------------------------------
(* Properties *)

\* The message text of a parser failure: the XML failure's message field,
\* the JSON failure's rendered text.
MessageText(f) ==
    IF f.layer = "xml" THEN f.value[1] ELSE JsonErrorToString(f.value)

\* C1: a parser failure, XML or JSON, with message text m converts to the
\* ParseError variant carrying m; the display text and the description of
\* that envelope are exactly m; and every XML failure and every JSON failure
\* carrying that same text m convert to an envelope equal to this one.
C1_ParseFailureText ==
    failure.layer \in {"xml", "json"} =>
        LET m == MessageText(failure)
            e == Unwrap(env)
        IN  /\ e.variant = "ParseError"
            /\ e.payload = m
            /\ IsSome(shown) => Unwrap(shown) = m
            /\ IsSome(described) => Unwrap(described) = m
            /\ \A x \in XmlParseErrors :
                   x[1] = m => EnvelopeEq(FromXmlParseError(x), e)
            /\ \A j \in JsonErrors :
                   JsonErrorToString(j) = m => EnvelopeEq(FromJsonError(j), e)

C1_Witness ==
    /\ failure.layer = "json"
    /\ failure.value.code = BadParam
    /\ failure.value.line = 0
    /\ IsSome(shown)
    /\ IsSome(described)
    /\ \E x \in XmlParseErrors : x[1] = MessageText(failure)

\* C2: a credential failure c converts to Credentials(c) with c unchanged,
\* and the causal source of that envelope is present and equals c.
C2_CredentialsSource ==
    failure.layer = "credentials" =>
        /\ Unwrap(env).variant = "Credentials"
        /\ Unwrap(env).payload = failure.value
        /\ IsSome(cause) =>
               /\ IsSome(Unwrap(cause))
               /\ Unwrap(Unwrap(cause)) = failure.value

C2_Witness ==
    /\ failure.layer = "credentials"
    /\ failure.value.message = BadParam
    /\ IsSome(cause)

\* C3: a raw I/O fault i converts to HttpDispatch(coerce(i)), the same
\* envelope as converting the transport failure coerce(i); its variant is
\* the variant of every envelope converted from a transport failure.
C3_IoIsDispatch ==
    failure.layer = "io" =>
        LET d == HttpDispatchErrorFromIo(failure.value)
            e == Unwrap(env)
        IN  /\ e.variant = "HttpDispatch"
            /\ e.payload = d
            /\ EnvelopeEq(e, FromHttpDispatchError(d))
            /\ \A t \in HttpDispatchErrors :
                   FromHttpDispatchError(t).variant = e.variant
            /\ IsSome(matched) => Unwrap(matched).arm = "HttpDispatch"

C3_Witness ==
    /\ failure.layer = "io"
    /\ failure.value.desc # <<>>
    /\ IsSome(matched)

\* C4: a transport failure d converts to HttpDispatch(d), and the value a
\* pattern match binds out of that envelope equals d.
C4_DispatchRoundTrip ==
    failure.layer = "dispatch" =>
        /\ Unwrap(env).variant = "HttpDispatch"
        /\ Unwrap(env).payload = failure.value
        /\ IsSome(matched) =>
               /\ Unwrap(matched).arm = "HttpDispatch"
               /\ Unwrap(matched).bound = failure.value

C4_Witness ==
    /\ failure.layer = "dispatch"
    /\ failure.value.message # <<>>
    /\ IsSome(matched)

ChainedVariants == {"Service", "Credentials", "HttpDispatch"}
LeafVariants == {"ServiceCommonError", "Validation", "ParseError", "Unknown"}

\* C5: the causal source of an envelope is present exactly when its variant
\* is Service, Credentials or HttpDispatch, and is then the payload; for
\* ServiceCommonError, Validation, ParseError and Unknown it is absent.
C5_SourcePolicy ==
    IsSome(cause) =>
        LET e == Unwrap(env)
            c == Unwrap(cause)
        IN  /\ IsSome(c) <=> e.variant \in ChainedVariants
            /\ IsSome(c) => Unwrap(c) = e.payload
            /\ e.variant \in LeafVariants => c = None

C5_Witness ==
    /\ IsSome(cause)
    /\ IsSome(env)
    /\ Unwrap(env).variant = "Service"
    /\ IsSome(Unwrap(cause))

\* The display text the presentation policy assigns to envelope e.
PolicyText(e) ==
    CASE e.variant = "Service" -> ServiceErrorDescription(e.payload)
      [] e.variant = "Credentials" -> CredentialsErrorDescription(e.payload)
      [] e.variant = "HttpDispatch" -> HttpDispatchErrorDescription(e.payload)
      [] e.variant \in {"ServiceCommonError", "Validation", "ParseError"} -> e.payload
      [] e.variant = "Unknown" -> body_as_str(e.payload)

\* C6: the description of an envelope is the payload's description for
\* Service, Credentials and HttpDispatch, the carried text for
\* ServiceCommonError, Validation and ParseError, and the textual form of
\* the response body for Unknown; the text Display writes equals it.
C6_DisplayPolicy ==
    IsSome(env) =>
        /\ IsSome(described) => Unwrap(described) = PolicyText(Unwrap(env))
        /\ IsSome(shown) => Unwrap(shown) = PolicyText(Unwrap(env))
        /\ IsSome(shown) /\ IsSome(described) => Unwrap(shown) = Unwrap(described)

C6_Witness ==
    /\ IsSome(env)
    /\ Unwrap(env).variant = "ParseError"
    /\ Unwrap(env).payload # <<>>
    /\ IsSome(shown)
    /\ IsSome(described)

\* C7: Validation(t) and ServiceCommonError(t) display exactly t, for every
\* text t: empty, with escapable characters, or "bad param".
C7_TextVerbatim ==
    (IsSome(env) /\ Unwrap(env).variant \in {"Validation", "ServiceCommonError"}) =>
        /\ IsSome(shown) => Unwrap(shown) = Unwrap(env).payload
        /\ IsSome(described) => Unwrap(described) = Unwrap(env).payload

C7_Witness ==
    /\ IsSome(env)
    /\ Unwrap(env).variant = "Validation"
    /\ Unwrap(env).payload = BadParam
    /\ shown = Some(BadParam)

\* C8: an Unknown envelope with an empty response body displays as the empty
\* text, and any envelope whose payload description is empty displays and
\* describes as the empty text.
C8_EmptyStaysEmpty ==
    IsSome(env) =>
        LET e == Unwrap(env)
        IN  /\ (e.variant = "Unknown" /\ e.payload.body = <<>> /\ IsSome(shown))
                   => Unwrap(shown) = <<>>
            /\ (PolicyText(e) = <<>> /\ IsSome(shown)) => Unwrap(shown) = <<>>
            /\ (PolicyText(e) = <<>> /\ IsSome(described)) => Unwrap(described) = <<>>

C8_Witness ==
    /\ IsSome(env)
    /\ Unwrap(env).variant = "Unknown"
    /\ Unwrap(env).payload.body = <<>>
    /\ shown = Some(<<>>)

\* C9: every conversion yields an envelope, with exactly one active variant,
\* which is ParseError, Credentials or HttpDispatch; an envelope whose
\* variant is Service, ServiceCommonError, Validation or Unknown was
\* constructed explicitly.
C9_ConversionVariants ==
    /\ failure.layer # "none" => IsSome(env) /\ origin = "from"
    /\ origin = "from" =>
           /\ IsSome(env)
           /\ Unwrap(env) \in RusotoErrors
           /\ Cardinality({v \in Variants : Unwrap(env).variant = v}) = 1
           /\ Unwrap(env).variant \in {"ParseError", "Credentials", "HttpDispatch"}
    /\ (IsSome(env) /\ Unwrap(env).variant \in
            {"Service", "ServiceCommonError", "Validation", "Unknown"})
           => origin = "explicit"

C9_Witness ==
    /\ origin = "from"
    /\ failure.layer = "xml"
    /\ IsSome(env)

\* C10: once constructed, the envelope never changes: every step leaves its
\* variant and payload as constructed, and a display text, description or
\* causal source once obtained is obtained again unchanged.
C10_Immutable ==
    [][IsSome(env) =>
           /\ env' = env
           /\ env = built
           /\ built' = built
           /\ IsSome(shown) => shown' = shown
           /\ IsSome(described) => described' = described
           /\ IsSome(cause) => cause' = cause
           /\ IsSome(matched) => matched' = matched]_vars

C10_Witness ==
    /\ IsSome(env)
    /\ env = built
    /\ IsSome(shown)
    /\ IsSome(described)
    /\ IsSome(cause)
    /\ IsSome(matched)
    /\ hops > 0

====
